---- MODULE Spec2Model ----
(***************************************************************************)
(* A model of scripts/decode_oracle_request.py: the command-line tool that *)
(* fetches one Oracle request object through the `rooch` client, decodes   *)
(* its hex and JSON payloads and prints a report in sections.              *)
(*                                                                         *)
(* Text is a sequence of Unicode code points (a Python str).  A JSON value *)
(* is a record tagged by "t": null, bool, num, str, list, obj.             *)
(***************************************************************************)
EXTENDS Integers, Sequences, FiniteSets, TLC

(***************************************************************************)
(* Bounds of the model.                                                    *)
(***************************************************************************)
MaxHexLen == 4
MaxTextLen == 2
MaxDepth == 3
MaxPathLen == 3
MaxMsgs == 2
MaxRawLen == 3
MaxOver == 1

(***************************************************************************)
(* Characters.  Ord(c) is the code point of a printable ASCII character,   *)
(* T(cs) the text spelled by a sequence of one-character strings.          *)
(***************************************************************************)
AsciiChars ==
  <<" ", "!", "\"", "#", "$", "%", "&", "'", "(", ")", "*", "+", ",", "-", ".", "/",
    "0", "1", "2", "3", "4", "5", "6", "7", "8", "9", ":", ";", "<", "=", ">", "?",
    "@", "A", "B", "C", "D", "E", "F", "G", "H", "I", "J", "K", "L", "M", "N", "O",
    "P", "Q", "R", "S", "T", "U", "V", "W", "X", "Y", "Z", "[", "\\", "]", "^", "_",
    "grave", "a", "b", "c", "d", "e", "f", "g", "h", "i", "j", "k", "l", "m", "n", "o",
    "p", "q", "r", "s", "t", "u", "v", "w", "x", "y", "z", "{", "|", "}", "~">>

Ord(c) == 31 + (CHOOSE i \in 1..Len(AsciiChars) : AsciiChars[i] = c)

T(cs) == [i \in 1..Len(cs) |-> Ord(cs[i])]

SeqsUpTo(S, n) == UNION {[1..k -> S] : k \in 0..n}

StartsWith(s, p) == Len(s) >= Len(p) /\ SubSeq(s, 1, Len(p)) = p

(***************************************************************************)
(* bytes.fromhex: ASCII whitespace is skipped between bytes; a byte is two *)
(* adjacent hex digits; anything else is a ValueError (ok = FALSE).        *)
(***************************************************************************)
IsSpace(c) == c = 32 \/ (c >= 9 /\ c <= 13)

HexVal(c) ==
  IF c >= 48 /\ c <= 57 THEN c - 48
  ELSE IF c >= 97 /\ c <= 102 THEN c - 87
  ELSE IF c >= 65 /\ c <= 70 THEN c - 55
  ELSE -1

IsHexDigit(c) == HexVal(c) >= 0

\* The number of hex-digit pairs that follow one another from i.
HexPairs(s, i) ==
  CHOOSE n \in 0..((Len(s) + 1 - i) \div 2) :
    /\ \A k \in i..(i + 2 * n - 1) : IsHexDigit(s[k])
    /\ \/ i + 2 * n + 1 > Len(s)
       \/ ~IsHexDigit(s[i + 2 * n])
       \/ ~IsHexDigit(s[i + 2 * n + 1])

\* bytes.fromhex from i: whitespace is skipped before a pair of digits, and
\* anything else than a pair of digits is an error.
RECURSIVE FromHexAt(_, _, _)
FromHexAt(s, i, acc) ==
  IF i > Len(s) THEN [ok |-> TRUE, bytes |-> acc]
  ELSE IF IsSpace(s[i]) THEN FromHexAt(s, i + 1, acc)
  ELSE IF HexPairs(s, i) = 0 THEN [ok |-> FALSE, bytes |-> <<>>]
  ELSE FromHexAt(s, i + 2 * HexPairs(s, i),
         acc \o [m \in 1..HexPairs(s, i) |->
                   16 * HexVal(s[i + 2 * m - 2]) + HexVal(s[i + 2 * m - 1])])

FromHex(s) == FromHexAt(s, 1, <<>>)

(***************************************************************************)
(* bytes.decode('utf-8'), strict: well-formed sequences only (no overlong  *)
(* forms, no surrogates, nothing above U+10FFFF).                          *)
(***************************************************************************)
IsCont(b) == b >= 128 /\ b <= 191

\* Number of continuation bytes a lead byte announces, -1 for a byte that
\* cannot start a sequence.
Utf8Need(b) ==
  IF b <= 127 THEN 0
  ELSE IF b >= 194 /\ b <= 223 THEN 1
  ELSE IF b >= 224 /\ b <= 239 THEN 2
  ELSE IF b >= 240 /\ b <= 244 THEN 3
  ELSE -1

\* The range allowed for the second byte after lead byte b.
Utf8SecondOk(b, c) ==
  IF b = 224 THEN c >= 160 /\ c <= 191
  ELSE IF b = 237 THEN c >= 128 /\ c <= 159
  ELSE IF b = 240 THEN c >= 144 /\ c <= 191
  ELSE IF b = 244 THEN c >= 128 /\ c <= 143
  ELSE IsCont(c)

\* The end of the run of one-byte characters from i.
AsciiEnd(bs, i) ==
  CHOOSE j \in i..(Len(bs) + 1) :
    /\ j > Len(bs) \/ bs[j] > 127
    /\ \A k \in i..(j - 1) : bs[k] <= 127

RECURSIVE Utf8DecodeAt(_, _, _)
Utf8DecodeAt(bs, i, acc) ==
  IF i > Len(bs) THEN [ok |-> TRUE, text |-> acc]
  ELSE
    LET b == bs[i]
        n == Utf8Need(b)
        bad == [ok |-> FALSE, text |-> <<>>]
    IN IF n = -1 \/ i + n > Len(bs) THEN bad
       ELSE IF n = 0
         THEN Utf8DecodeAt(bs, AsciiEnd(bs, i), acc \o SubSeq(bs, i, AsciiEnd(bs, i) - 1))
       ELSE IF ~Utf8SecondOk(b, bs[i + 1]) THEN bad
       ELSE IF \E k \in 2..n : ~IsCont(bs[i + k]) THEN bad
       ELSE IF n = 1
         THEN Utf8DecodeAt(bs, i + 2, Append(acc, (b - 192) * 64 + (bs[i + 1] - 128)))
       ELSE IF n = 2
         THEN Utf8DecodeAt(bs, i + 3,
                Append(acc, (b - 224) * 4096 + (bs[i + 1] - 128) * 64 + (bs[i + 2] - 128)))
       ELSE Utf8DecodeAt(bs, i + 4,
                Append(acc, (b - 240) * 262144 + (bs[i + 1] - 128) * 4096
                            + (bs[i + 2] - 128) * 64 + (bs[i + 3] - 128)))

Utf8Decode(bs) == Utf8DecodeAt(bs, 1, <<>>)

(***************************************************************************)
(* The encoders the chain (and a caller) uses to produce a payload:        *)
(* str.encode('utf-8') and bytes.hex().                                    *)
(***************************************************************************)
Utf8EncodeCp(cp) ==
  IF cp < 128 THEN <<cp>>
  ELSE IF cp < 2048 THEN <<192 + (cp \div 64), 128 + (cp % 64)>>
  ELSE IF cp < 65536
    THEN <<224 + (cp \div 4096), 128 + ((cp \div 64) % 64), 128 + (cp % 64)>>
  ELSE <<240 + (cp \div 262144), 128 + ((cp \div 4096) % 64),
         128 + ((cp \div 64) % 64), 128 + (cp % 64)>>

RECURSIVE Utf8Encode(_)
Utf8Encode(text) ==
  IF text = <<>> THEN <<>>
  ELSE IF Len(text) = 1 THEN Utf8EncodeCp(text[1])
  ELSE Utf8Encode(SubSeq(text, 1, Len(text) \div 2))
         \o Utf8Encode(SubSeq(text, (Len(text) \div 2) + 1, Len(text)))

HexDigit(n) == IF n < 10 THEN 48 + n ELSE 87 + n

HexOfBytes(bs) ==
  [i \in 1..(2 * Len(bs)) |->
     IF i % 2 = 1 THEN HexDigit(bs[(i + 1) \div 2] \div 16) ELSE HexDigit(bs[i \div 2] % 16)]

HexOfText(text) == HexOfBytes(Utf8Encode(text))

Prefix0x == T(<<"0", "x">>)

(***************************************************************************)
(* decode_hex                                                              *)
(***************************************************************************)
UnableToDecodeHex ==
  T(<<"[", "U", "n", "a", "b", "l", "e", " ", "t", "o", " ",
      "d", "e", "c", "o", "d", "e", " ", "h", "e", "x", "]">>)

\* decode_hex with the prefix test dropped: "0x..." goes to fromhex as it is.
decode_hex_keeps_prefix(hex_string) ==
  LET raw == FromHex(hex_string)
      dec == Utf8Decode(raw.bytes)
  IN IF raw.ok /\ dec.ok THEN dec.text ELSE UnableToDecodeHex

decode_hex(hex_string) ==
  LET stripped == IF StartsWith(hex_string, Prefix0x)
                  THEN SubSeq(hex_string, 3, Len(hex_string))
                  ELSE hex_string
      raw == FromHex(stripped)
      dec == Utf8Decode(raw.bytes)
  IN IF raw.ok /\ dec.ok THEN dec.text ELSE UnableToDecodeHex


(***************************************************************************)
(* JSON values as json.loads returns them.  Every kind keeps its payload   *)
(* in a field of its own.  Python's None is JNull.  A number keeps its     *)
(* literal.  A dict is a function from key texts to values.                *)
(***************************************************************************)
JNull == [t |-> "null"]
JBool(b) == [t |-> "bool", b |-> b]
JNum(lit) == [t |-> "num", n |-> lit]
JStr(s) == [t |-> "str", s |-> s]
JList(l) == [t |-> "list", l |-> l]
JObj(o) == [t |-> "obj", o |-> o]

EmptyObj == JObj(<<>>)

\* The marker of an absent key (never a JSON value).
Missing == [t |-> "missing"]

IsDigit(c) == c >= 48 /\ c <= 57

\* NaN, Infinity or -Infinity.
NotFinite(lit) == \E i \in 1..Len(lit) : lit[i] = Ord("N") \/ lit[i] = Ord("I")

\* A number literal that denotes zero (0, -0, 0.0, 0e5, ...): no digit of its
\* mantissa is other than 0.
RECURSIVE ZeroMantissa(_, _)
ZeroMantissa(lit, i) ==
  IF i > Len(lit) \/ lit[i] = Ord("e") \/ lit[i] = Ord("E") THEN TRUE
  ELSE IF IsDigit(lit[i]) /\ lit[i] # 48 THEN FALSE
  ELSE ZeroMantissa(lit, i + 1)

\* bool(x): what `if x:` and `not x` test.
Truthy(x) ==
  CASE x.t = "null" -> FALSE
    [] x.t = "bool" -> x.b
    [] x.t = "num" -> NotFinite(x.n) \/ ~ZeroMantissa(x.n, 1)
    [] x.t = "str" -> x.s # <<>>
    [] x.t = "list" -> x.l # <<>>
    [] x.t = "obj" -> DOMAIN x.o # {}

IsSubstring(p, s) ==
  \E i \in 0..(Len(s) - Len(p)) : SubSeq(s, i + 1, i + Len(p)) = p

\* `key in x` for a str key: "yes", "no", or the exception raised.
Contains(x, key) ==
  CASE x.t = "obj" -> IF key \in DOMAIN x.o THEN "yes" ELSE "no"
    [] x.t = "list" ->
         IF \E i \in 1..Len(x.l) : x.l[i].t = "str" /\ x.l[i].s = key
         THEN "yes" ELSE "no"
    [] x.t = "str" -> IF IsSubstring(key, x.s) THEN "yes" ELSE "no"
    [] OTHER -> "TypeError"

\* x[key] for a str key: the value, or the exception raised.
Index(x, key) ==
  CASE x.t = "obj" ->
         IF key \in DOMAIN x.o THEN [exc |-> "none", v |-> x.o[key]]
         ELSE [exc |-> "KeyError", v |-> JNull]
    [] OTHER -> [exc |-> "TypeError", v |-> JNull]

\* x[0].
IndexZero(x) ==
  CASE x.t = "list" ->
         IF x.l # <<>> THEN [exc |-> "none", v |-> x.l[1]]
         ELSE [exc |-> "IndexError", v |-> JNull]
    [] x.t = "str" ->
         IF x.s # <<>> THEN [exc |-> "none", v |-> JStr(<<x.s[1]>>)]
         ELSE [exc |-> "IndexError", v |-> JNull]
    [] x.t = "obj" -> [exc |-> "KeyError", v |-> JNull]
    [] OTHER -> [exc |-> "TypeError", v |-> JNull]

\* x.get(key, default) of a dict x.
Get(x, key, default) == IF key \in DOMAIN x.o THEN x.o[key] ELSE default

(***************************************************************************)
(* json.loads on a str: the decoder of the standard library (strict mode). *)
(* A parse step returns [ok, v, i]: success, the value, the next index.    *)
(***************************************************************************)
ParseFail == [ok |-> FALSE, v |-> JNull, i |-> 0]

ParseOk(v, i) == [ok |-> TRUE, v |-> v, i |-> i]

JsonWs(c) == c = 32 \/ c = 9 \/ c = 10 \/ c = 13

RECURSIVE SkipWs(_, _)
SkipWs(s, i) == IF i <= Len(s) /\ JsonWs(s[i]) THEN SkipWs(s, i + 1) ELSE i

At(s, i, c) == i <= Len(s) /\ s[i] = Ord(c)

WordAt(s, i, w) == i + Len(w) - 1 <= Len(s) /\ SubSeq(s, i, i + Len(w) - 1) = w

\* The value of the four hex digits at i..i+3, -1 if they are not all there.
Hex4At(s, i) ==
  IF i + 3 > Len(s) \/ \E k \in 0..3 : ~IsHexDigit(s[i + k]) THEN -1
  ELSE 4096 * HexVal(s[i]) + 256 * HexVal(s[i + 1]) + 16 * HexVal(s[i + 2]) + HexVal(s[i + 3])

SimpleEscape(c) ==
  CASE c = 34 -> 34
    [] c = 92 -> 92
    [] c = 47 -> 47
    [] c = Ord("b") -> 8
    [] c = Ord("f") -> 12
    [] c = Ord("n") -> 10
    [] c = Ord("r") -> 13
    [] c = Ord("t") -> 9
    [] OTHER -> -1

\* The end of the run of characters from i that stand for themselves in a
\* string literal: the first quote, backslash or control character, or the
\* end of the text.
PlainEnd(s, i) ==
  CHOOSE j \in i..(Len(s) + 1) :
    /\ j > Len(s) \/ s[j] = 34 \/ s[j] = 92 \/ s[j] < 32
    /\ \A k \in i..(j - 1) : s[k] # 34 /\ s[k] # 92 /\ s[k] >= 32

\* What stands at i inside a string literal: the closing quote ("end"), a
\* run of plain characters or one escape sequence ("chars", with the text
\* it denotes and the index after it), or a character or sequence that is
\* not allowed ("bad").
StringStep(s, i) ==
  LET step(kind, chars, next) == [kind |-> kind, chars |-> chars, next |-> next]
      hi == Hex4At(s, i + 2)
      lo == IF At(s, i + 6, "\\") /\ At(s, i + 7, "u") THEN Hex4At(s, i + 8) ELSE -1
  IN IF i > Len(s) THEN step("bad", <<>>, i)
     ELSE IF s[i] = 34 THEN step("end", <<>>, i + 1)
     ELSE IF s[i] < 32 THEN step("bad", <<>>, i)
     ELSE IF s[i] # 92 THEN step("chars", SubSeq(s, i, PlainEnd(s, i) - 1), PlainEnd(s, i))
     ELSE IF i + 1 > Len(s) THEN step("bad", <<>>, i)
     ELSE IF s[i + 1] = Ord("u") THEN
       IF hi = -1 THEN step("bad", <<>>, i)
       ELSE IF hi >= 55296 /\ hi <= 56319 /\ lo >= 56320 /\ lo <= 57343
         THEN step("chars", <<65536 + (hi - 55296) * 1024 + (lo - 56320)>>, i + 12)
       ELSE step("chars", <<hi>>, i + 6)
     ELSE IF SimpleEscape(s[i + 1]) = -1 THEN step("bad", <<>>, i)
     ELSE step("chars", <<SimpleEscape(s[i + 1])>>, i + 2)

\* Two stretches of a string literal, the second from where the first ends,
\* as one.
JoinSteps(a, b) == [kind |-> b.kind, chars |-> a.chars \o b.chars, next |-> b.next]

RECURSIVE StringSteps(_, _, _)
RECURSIVE MoreSteps(_, _, _)

\* Up to n steps from i taken as one.
StringSteps(s, i, n) ==
  IF n <= 1 THEN StringStep(s, i)
  ELSE MoreSteps(s, StringSteps(s, i, n \div 2), n - (n \div 2))

\* Up to n steps more after the stretch a.
MoreSteps(s, a, n) ==
  IF a.kind # "chars" THEN a ELSE JoinSteps(a, StringSteps(s, a.next, n))

StringResult(a) ==
  IF a.kind = "end" THEN ParseOk(JStr(a.chars), a.next) ELSE ParseFail

\* The string literal whose characters start at i (after the opening quote);
\* a step takes at least one character.
ScanString(s, i) == StringResult(StringSteps(s, i, Len(s) + 1))

RECURSIVE DigitsEnd(_, _)
DigitsEnd(s, i) == IF i <= Len(s) /\ IsDigit(s[i]) THEN DigitsEnd(s, i + 1) ELSE i

\* -?(0|[1-9]\d*)(\.\d+)?([eE][-+]?\d+)? at i.
ParseNumber(s, i) ==
  LET a == IF At(s, i, "-") THEN i + 1 ELSE i
      b == IF At(s, a, "0") THEN a + 1 ELSE DigitsEnd(s, a)
      c == IF At(s, b, ".") /\ DigitsEnd(s, b + 1) > b + 1 THEN DigitsEnd(s, b + 1) ELSE b
      d == IF At(s, c, "e") \/ At(s, c, "E")
           THEN IF At(s, c + 1, "-") \/ At(s, c + 1, "+") THEN c + 2 ELSE c + 1
           ELSE c
      e == IF d > c /\ DigitsEnd(s, d) > d THEN DigitsEnd(s, d) ELSE c
  IN IF b = a THEN ParseFail ELSE ParseOk(JNum(SubSeq(s, i, e - 1)), e)

\* A dict with key k set to v (a later duplicate key replaces the earlier).
SetKey(o, k, v) == [x \in DOMAIN o \cup {k} |-> IF x = k THEN v ELSE o[x]]

\* A value that is no object and no array, at i.
ParseScalar(s, i) ==
  IF i > Len(s) THEN ParseFail
  ELSE IF s[i] = 34 THEN ScanString(s, i + 1)
  ELSE IF WordAt(s, i, T(<<"n", "u", "l", "l">>)) THEN ParseOk(JNull, i + 4)
  ELSE IF WordAt(s, i, T(<<"t", "r", "u", "e">>)) THEN ParseOk(JBool(TRUE), i + 4)
  ELSE IF WordAt(s, i, T(<<"f", "a", "l", "s", "e">>)) THEN ParseOk(JBool(FALSE), i + 5)
  ELSE IF WordAt(s, i, T(<<"N", "a", "N">>)) THEN ParseOk(JNum(SubSeq(s, i, i + 2)), i + 3)
  ELSE IF WordAt(s, i, T(<<"I", "n", "f", "i", "n", "i", "t", "y">>))
    THEN ParseOk(JNum(SubSeq(s, i, i + 7)), i + 8)
  ELSE IF WordAt(s, i, T(<<"-", "I", "n", "f", "i", "n", "i", "t", "y">>))
    THEN ParseOk(JNum(SubSeq(s, i, i + 8)), i + 9)
  ELSE ParseNumber(s, i)

RECURSIVE ParseValue(_, _)
RECURSIVE ParseElems(_, _, _)
RECURSIVE ElemParsed(_, _, _)
RECURSIVE ElemsNext(_, _, _)
RECURSIVE ParseMembers(_, _, _)
RECURSIVE KeyParsed(_, _, _)
RECURSIVE MemberParsed(_, _, _, _)
RECURSIVE MembersNext(_, _, _)

ParseValue(s, i) ==
  CASE At(s, i, "{") /\ At(s, SkipWs(s, i + 1), "}") ->
         ParseOk(EmptyObj, SkipWs(s, i + 1) + 1)
    [] At(s, i, "{") /\ ~At(s, SkipWs(s, i + 1), "}") ->
         ParseMembers(s, SkipWs(s, i + 1), <<>>)
    [] At(s, i, "[") /\ At(s, SkipWs(s, i + 1), "]") ->
         ParseOk(JList(<<>>), SkipWs(s, i + 1) + 1)
    [] At(s, i, "[") /\ ~At(s, SkipWs(s, i + 1), "]") ->
         ParseElems(s, SkipWs(s, i + 1), <<>>)
    [] OTHER -> ParseScalar(s, i)

\* The elements of an array from i (at the first character of an element).
ParseElems(s, i, acc) == ElemParsed(s, ParseValue(s, i), acc)

\* After the element v: the rest of the array.
ElemParsed(s, v, acc) ==
  IF v.ok THEN ElemsNext(s, SkipWs(s, v.i), Append(acc, v.v)) ELSE ParseFail

\* At e, after an element and whitespace: the end of the array or a comma.
ElemsNext(s, e, acc) ==
  IF At(s, e, "]") THEN ParseOk(JList(acc), e + 1)
  ELSE IF At(s, e, ",") THEN ParseElems(s, SkipWs(s, e + 1), acc)
  ELSE ParseFail

\* The members of an object from i (at the opening quote of a key).
ParseMembers(s, i, acc) ==
  IF At(s, i, "\"") THEN KeyParsed(s, ScanString(s, i + 1), acc) ELSE ParseFail

\* After the key k: the colon and the value.
KeyParsed(s, k, acc) ==
  IF k.ok /\ At(s, SkipWs(s, k.i), ":")
  THEN MemberParsed(s, k.v.s, ParseValue(s, SkipWs(s, SkipWs(s, k.i) + 1)), acc)
  ELSE ParseFail

\* After the value v of the member key: the rest of the object.
MemberParsed(s, key, v, acc) ==
  IF v.ok THEN MembersNext(s, SkipWs(s, v.i), SetKey(acc, key, v.v)) ELSE ParseFail

\* At e, after a member and whitespace: the end of the object or a comma.
MembersNext(s, e, o) ==
  IF At(s, e, "}") THEN ParseOk(JObj(o), e + 1)
  ELSE IF At(s, e, ",") THEN ParseMembers(s, SkipWs(s, e + 1), o)
  ELSE ParseFail

\* The document parsed to r: nothing but whitespace may follow it.
Loaded(s, r) ==
  IF r.ok /\ SkipWs(s, r.i) > Len(s)
  THEN [exc |-> "none", v |-> r.v]
  ELSE [exc |-> "JSONDecodeError", v |-> JNull]

\* json.loads(x): the value, or the exception raised (TypeError for an
\* argument that is not a str, JSONDecodeError for a text that is not JSON).
json_loads(x) ==
  IF x.t # "str" THEN [exc |-> "TypeError", v |-> JNull]
  ELSE Loaded(x.s, ParseValue(x.s, SkipWs(x.s, 1)))

(***************************************************************************)
(* json.dumps with its defaults: the JSON text a producer (the rooch       *)
(* client, the requester, the oracle) emits for a value.                   *)
(***************************************************************************)
Hex4(n) ==
  <<HexDigit(n \div 4096), HexDigit((n \div 256) % 16),
    HexDigit((n \div 16) % 16), HexDigit(n % 16)>>

EscapeChar(c) ==
  CASE c = 34 -> T(<<"\\", "\"">>)
    [] c = 92 -> T(<<"\\", "\\">>)
    [] c = 10 -> T(<<"\\", "n">>)
    [] c = 13 -> T(<<"\\", "r">>)
    [] c = 9 -> T(<<"\\", "t">>)
    [] c = 8 -> T(<<"\\", "b">>)
    [] c = 12 -> T(<<"\\", "f">>)
    [] c >= 32 /\ c <= 126 /\ c # 34 /\ c # 92 -> <<c>>
    [] c >= 65536 ->
         T(<<"\\", "u">>) \o Hex4(55296 + ((c - 65536) \div 1024))
           \o T(<<"\\", "u">>) \o Hex4(56320 + ((c - 65536) % 1024))
    [] OTHER -> T(<<"\\", "u">>) \o Hex4(c)

RECURSIVE EscapeText(_)
EscapeText(s) ==
  IF s = <<>> THEN <<>>
  ELSE IF Len(s) = 1 THEN EscapeChar(s[1])
  ELSE EscapeText(SubSeq(s, 1, Len(s) \div 2)) \o EscapeText(SubSeq(s, (Len(s) \div 2) + 1, Len(s)))

Quoted(s) == <<34>> \o EscapeText(s) \o <<34>>

RECURSIVE JsonDumps(_)
RECURSIVE DumpElems(_)
RECURSIVE DumpMembers(_, _)

JsonDumps(x) ==
  CASE x.t = "null" -> T(<<"n", "u", "l", "l">>)
    [] x.t = "bool" -> IF x.b THEN T(<<"t", "r", "u", "e">>) ELSE T(<<"f", "a", "l", "s", "e">>)
    [] x.t = "num" -> x.n
    [] x.t = "str" -> Quoted(x.s)
    [] x.t = "list" -> T(<<"[">>) \o DumpElems(x.l) \o T(<<"]">>)
    [] x.t = "obj" -> T(<<"{">>) \o DumpMembers(x.o, DOMAIN x.o) \o T(<<"}">>)

DumpElems(l) ==
  IF l = <<>> THEN <<>>
  ELSE IF Len(l) = 1 THEN JsonDumps(l[1])
  ELSE JsonDumps(l[1]) \o T(<<",", " ">>) \o DumpElems(Tail(l))

DumpMembers(o, keys) ==
  IF keys = {} THEN <<>>
  ELSE LET k == IF \E c \in keys : o[c].t \in {"obj", "list"}
                THEN CHOOSE c \in keys : o[c].t \in {"obj", "list"}
                ELSE CHOOSE c \in keys : TRUE
           m == Quoted(k) \o T(<<":", " ">>) \o JsonDumps(o[k])
       IN IF keys = {k} THEN m ELSE m \o T(<<",", " ">>) \o DumpMembers(o, keys \ {k})

(***************************************************************************)
(* str.split('.')                                                          *)
(***************************************************************************)
\* The index of the first sep in s from i, Len(s) + 1 if there is none.
NextSep(s, sep, i) ==
  CHOOSE j \in i..(Len(s) + 1) :
    /\ j > Len(s) \/ s[j] = sep
    /\ \A k \in i..(j - 1) : s[k] # sep

\* The parts of s from i.
RECURSIVE SplitAt(_, _, _)
SplitAt(s, sep, i) ==
  IF NextSep(s, sep, i) > Len(s) THEN <<SubSeq(s, i, Len(s))>>
  ELSE <<SubSeq(s, i, NextSep(s, sep, i) - 1)>> \o SplitAt(s, sep, NextSep(s, sep, i) + 1)

Split(s, sep) == SplitAt(s, sep, 1)

(***************************************************************************)
(* extract_nested_value.  The result says whether the call raised.         *)
(***************************************************************************)
\* The loop with the isinstance test dropped: `if key in current`.
RECURSIVE WalkUnguarded(_, _, _)
WalkUnguarded(current, keys, i) ==
  IF i > Len(keys) THEN [raised |-> FALSE, v |-> current]
  ELSE LET c == Contains(current, keys[i])
           x == Index(current, keys[i])
       IN IF c = "TypeError" THEN [raised |-> TRUE, v |-> JNull]
          ELSE IF c = "no" THEN [raised |-> FALSE, v |-> JNull]
          ELSE IF x.exc # "none" THEN [raised |-> TRUE, v |-> JNull]
          ELSE WalkUnguarded(x.v, keys, i + 1)

extract_nested_value_unguarded(data, path) == WalkUnguarded(data, Split(path, Ord(".")), 1)

RECURSIVE Walk(_, _, _)
Walk(current, keys, i) ==
  IF i > Len(keys) THEN [raised |-> FALSE, v |-> current]
  ELSE IF current.t = "obj" /\ keys[i] \in DOMAIN current.o
    THEN Walk(current.o[keys[i]], keys, i + 1)
  ELSE [raised |-> FALSE, v |-> JNull]

extract_nested_value(data, path) == Walk(data, Split(path, Ord(".")), 1)

(***************************************************************************)
(* Printed text is a sequence of pieces: a literal of the source, a text   *)
(* computed by the program, str(v) of a value placed in an f-string,       *)
(* json.dumps(v, indent=2), or the message of a caught exception.          *)
(***************************************************************************)
Lit(s) == [p |-> "lit", lit |-> s]
Txt(s) == [p |-> "text", text |-> s]
Str(v) == IF v.t = "str" THEN Txt(v.s) ELSE [p |-> "str", of |-> v]
Pretty(v) == [p |-> "dumps", json |-> v]
ExcText(e) == [p |-> "exc", exc |-> e]

\* str.upper and str.capitalize, on ASCII letters.
UpperChar(c) == IF c >= 97 /\ c <= 122 THEN c - 32 ELSE c
LowerChar(c) == IF c >= 65 /\ c <= 90 THEN c + 32 ELSE c
Upper(s) == [i \in 1..Len(s) |-> UpperChar(s[i])]
Capitalize(s) == [i \in 1..Len(s) |-> IF i = 1 THEN UpperChar(s[i]) ELSE LowerChar(s[i])]

K_messages == T(<<"m", "e", "s", "s", "a", "g", "e", "s">>)
K_model == T(<<"m", "o", "d", "e", "l">>)
K_temperature == T(<<"t", "e", "m", "p", "e", "r", "a", "t", "u", "r", "e">>)
K_role == T(<<"r", "o", "l", "e">>)
K_content == T(<<"c", "o", "n", "t", "e", "n", "t">>)
S_system == T(<<"s", "y", "s", "t", "e", "m">>)
S_unknown == T(<<"u", "n", "k", "n", "o", "w", "n">>)
S_NotSpecified == T(<<"N", "o", "t", " ", "s", "p", "e", "c", "i", "f", "i", "e", "d">>)

PreviewLength == 200

Min(a, b) == IF a < b THEN a ELSE b

(***************************************************************************)
(* process_request_body.  The result says whether the call raised and the  *)
(* text returned.                                                          *)
(***************************************************************************)
Returned(pieces) == [raised |-> FALSE, pieces |-> pieces]

ErrorBody(e) == Returned(<<Lit("Error processing request body: "), ExcText(e)>>)

\* The loop over body_json['messages'] with each block put before the ones
\* of the earlier messages.
RECURSIVE FormatMessagesReversed(_, _, _)
FormatMessagesReversed(msgs, i, acc) ==
  IF i > Len(msgs) THEN [exc |-> "none", pieces |-> acc]
  ELSE IF msgs[i].t # "obj" THEN [exc |-> "AttributeError", pieces |-> <<>>]
  ELSE
    LET role == Get(msgs[i], K_role, JStr(S_unknown))
        content == Get(msgs[i], K_content, JStr(<<>>))
    IN IF role.t # "str" THEN [exc |-> "AttributeError", pieces |-> <<>>]
       ELSE FormatMessagesReversed(msgs, i + 1,
              <<Lit("["),
                Txt(IF role.s = S_system THEN Upper(role.s) ELSE Capitalize(role.s)),
                Lit("]\n"), Str(content), Lit("\n\n")>> \o acc)

\* The loop over body_json['messages']: the blocks, or the exception raised.
RECURSIVE FormatMessages(_, _, _)
FormatMessages(msgs, i, acc) ==
  IF i > Len(msgs) THEN [exc |-> "none", pieces |-> acc]
  ELSE IF msgs[i].t # "obj" THEN [exc |-> "AttributeError", pieces |-> <<>>]
  ELSE
    LET role == Get(msgs[i], K_role, JStr(S_unknown))
        content == Get(msgs[i], K_content, JStr(<<>>))
    IN IF role.t # "str" THEN [exc |-> "AttributeError", pieces |-> <<>>]
       ELSE FormatMessages(msgs, i + 1,
              acc \o <<Lit("["),
                       Txt(IF role.s = S_system THEN Upper(role.s) ELSE Capitalize(role.s)),
                       Lit("]\n"), Str(content), Lit("\n\n")>>)

ChatHeader(body_json) ==
  <<Lit("Model: "), Str(Get(body_json, K_model, JStr(S_NotSpecified))), Lit("\n")>>
  \o (IF K_temperature \in DOMAIN body_json.o
      THEN <<Lit("Temperature: "), Str(body_json.o[K_temperature]), Lit("\n")>>
      ELSE <<>>)
  \o <<Lit("\n----- Messages -----\n\n")>>

TruncatedPreview(body) ==
  <<Txt(SubSeq(body, 1, Min(PreviewLength, Len(body)))),
    Lit("...\n(Request body truncated for readability)")>>

\* Lines 91-110, with blocks the outcome of the loop.
FormatChat(body_json, blocks) ==
  IF blocks.exc # "none" THEN ErrorBody(blocks.exc)
  ELSE Returned(ChatHeader(body_json) \o blocks.pieces)

\* Lines 90-113: the test of line 90 and its two branches.
FormatJson(body_json) ==
  LET has == Contains(body_json, K_messages)
      msgs == Index(body_json, K_messages)
  IN IF has = "TypeError" THEN ErrorBody("TypeError")
     ELSE IF has = "no" THEN Returned(<<Pretty(body_json)>>)
     ELSE IF msgs.exc # "none" THEN ErrorBody(msgs.exc)
     ELSE IF msgs.v.t # "list" THEN Returned(<<Pretty(body_json)>>)
     ELSE FormatChat(body_json, FormatMessages(msgs.v.l, 1, <<>>))

\* Lines 87-120, with parsed the outcome of json.loads(body).
FormatBody(body, parsed) ==
  IF parsed.exc = "JSONDecodeError" THEN Returned(TruncatedPreview(body.s))
  ELSE IF parsed.exc # "none" THEN ErrorBody(parsed.exc)
  ELSE FormatJson(parsed.v)

process_request_body(body) == FormatBody(body, json_loads(body))

(***************************************************************************)
(* The keys and paths the report reads.                                    *)
(***************************************************************************)
K_data == T(<<"d", "a", "t", "a">>)
K_id == T(<<"i", "d">>)
K_object_type == T(<<"o", "b", "j", "e", "c", "t", "_", "t", "y", "p", "e">>)
K_owner == T(<<"o", "w", "n", "e", "r">>)
K_created_at == T(<<"c", "r", "e", "a", "t", "e", "d", "_", "a", "t">>)
K_updated_at == T(<<"u", "p", "d", "a", "t", "e", "d", "_", "a", "t">>)
K_decoded_value == T(<<"d", "e", "c", "o", "d", "e", "d", "_", "v", "a", "l", "u", "e">>)
K_value == T(<<"v", "a", "l", "u", "e">>)
K_amount == T(<<"a", "m", "o", "u", "n", "t">>)
K_request_account == T(<<"r", "e", "q", "u", "e", "s", "t", "_", "a", "c", "c", "o", "u", "n", "t">>)
K_oracle == T(<<"o", "r", "a", "c", "l", "e">>)
K_params == T(<<"p", "a", "r", "a", "m", "s">>)
K_url == T(<<"u", "r", "l">>)
K_method == T(<<"m", "e", "t", "h", "o", "d">>)
K_headers == T(<<"h", "e", "a", "d", "e", "r", "s">>)
K_body == T(<<"b", "o", "d", "y">>)
K_notify == T(<<"n", "o", "t", "i", "f", "y">>)
K_vec == T(<<"v", "e", "c">>)
K_response == T(<<"r", "e", "s", "p", "o", "n", "s", "e">>)
K_response_status == T(<<"r", "e", "s", "p", "o", "n", "s", "e", "_", "s", "t", "a", "t", "u", "s">>)
K_choices == T(<<"c", "h", "o", "i", "c", "e", "s">>)
K_message == T(<<"m", "e", "s", "s", "a", "g", "e">>)
P_params_value == T(<<"p", "a", "r", "a", "m", "s", ".", "v", "a", "l", "u", "e">>)
P_notify_vec == T(<<"n", "o", "t", "i", "f", "y", ".", "v", "a", "l", "u", "e", ".", "v", "e", "c">>)
P_value_0_0 == T(<<"v", "a", "l", "u", "e", ".", "0", ".", "0">>)
P_response_vec == T(<<"r", "e", "s", "p", "o", "n", "s", "e", ".", "v", "a", "l", "u", "e", ".", "v", "e", "c">>)

(***************************************************************************)
(* Statements.  Running a statement yields the items it printed and the    *)
(* exception it raised ("none" when it completed).  An item is a section   *)
(* header or a line of pieces.                                             *)
(***************************************************************************)
Header(h) == [k |-> "header", h |-> h]
Line(pieces) == [k |-> "line", pieces |-> pieces]

Emit(items) == [exc |-> "none", items |-> items]
Raise(e) == [exc |-> e, items |-> <<>>]
Skip == Emit(<<>>)

\* a; b
Then(a, b) == IF a.exc # "none" THEN a ELSE [exc |-> b.exc, items |-> a.items \o b.items]

\* What the first n statements of stmts printed.
RECURSIVE ItemsUpTo(_, _)
ItemsUpTo(stmts, n) == IF n = 0 THEN <<>> ELSE ItemsUpTo(stmts, n - 1) \o stmts[n].items

\* a; b; c; ...: the statements up to the first that raises.
Block(stmts) ==
  LET raising == {i \in 1..Len(stmts) : stmts[i].exc # "none"}
      last == IF raising = {} THEN Len(stmts)
              ELSE CHOOSE i \in raising : \A j \in raising : i <= j
  IN [exc |-> IF raising = {} THEN "none" ELSE stmts[last].exc,
      items |-> ItemsUpTo(stmts, last)]

\* if key in x: stmt
IfIn(x, key, stmt) ==
  LET c == Contains(x, key)
  IN IF c = "TypeError" THEN Raise("TypeError") ELSE IF c = "yes" THEN stmt ELSE Skip

\* print(f"{label}{x[key]}{suffix}")
PrintField(label, x, key, suffix) ==
  LET r == Index(x, key)
  IN IF r.exc # "none" THEN Raise(r.exc)
     ELSE Emit(<<Line(<<Lit(label), Str(r.v), Lit(suffix)>>)>>)

(***************************************************************************)
(* format_timestamp: int(timestamp_ms) raises for None, a list, a dict     *)
(* (TypeError), for a str that is no integer literal and for NaN           *)
(* (ValueError), and for an infinity (OverflowError).  The text of a time  *)
(* is left symbolic; the times are taken within the range of datetime      *)
(* (years 1 to 9999), outside of which fromtimestamp raises.               *)
(***************************************************************************)
RECURSIVE StripLeft(_)
StripLeft(s) == IF s # <<>> /\ IsSpace(Head(s)) THEN StripLeft(Tail(s)) ELSE s

RECURSIVE StripRight(_)
StripRight(s) ==
  IF s # <<>> /\ IsSpace(s[Len(s)]) THEN StripRight(SubSeq(s, 1, Len(s) - 1)) ELSE s

IsIntLiteral(s) ==
  LET t == StripRight(StripLeft(s))
      d == IF t # <<>> /\ (t[1] = Ord("-") \/ t[1] = Ord("+")) THEN Tail(t) ELSE t
  IN d # <<>> /\ \A i \in 1..Len(d) : IsDigit(d[i])

format_timestamp(timestamp_ms) ==
  CASE timestamp_ms.t = "str" ->
         IF IsIntLiteral(timestamp_ms.s)
         THEN [exc |-> "none", piece |-> [p |-> "time", ms |-> timestamp_ms]]
         ELSE [exc |-> "ValueError", piece |-> Lit("")]
    [] timestamp_ms.t = "num" /\ NotFinite(timestamp_ms.n) ->
         [exc |-> IF timestamp_ms.n[1] = Ord("N") THEN "ValueError" ELSE "OverflowError",
          piece |-> Lit("")]
    [] timestamp_ms.t = "bool" \/ (timestamp_ms.t = "num" /\ ~NotFinite(timestamp_ms.n)) ->
         [exc |-> "none", piece |-> [p |-> "time", ms |-> timestamp_ms]]
    [] OTHER -> [exc |-> "TypeError", piece |-> Lit("")]

\* print(f"{label}{format_timestamp(obj[key])}")
PrintTime(label, obj, key) ==
  LET r == Index(obj, key)
      f == format_timestamp(r.v)
  IN IF r.exc # "none" THEN Raise(r.exc)
     ELSE IF f.exc # "none" THEN Raise(f.exc)
     ELSE Emit(<<Line(<<Lit(label), f.piece>>)>>)

(***************************************************************************)
(* process_openai_response: the content, or None; the bare except turns    *)
(* every exception into None.                                              *)
(***************************************************************************)
process_openai_response(response_json) ==
  LET choices == Index(response_json, K_choices)
      first == IndexZero(choices.v)
      message == Index(first.v, K_message)
      content == Index(message.v, K_content)
  IN IF Contains(response_json, K_choices) # "yes" THEN JNull
     ELSE IF choices.exc # "none" THEN JNull
     ELSE IF ~Truthy(choices.v) THEN JNull
     ELSE IF first.exc # "none" THEN JNull
     ELSE IF Contains(first.v, K_message) # "yes" THEN JNull
     ELSE IF message.exc # "none" THEN JNull
     ELSE IF Contains(message.v, K_content) # "yes" THEN JNull
     ELSE IF content.exc # "none" THEN JNull
     ELSE content.v

(***************************************************************************)
(* analyze_oracle_request, section by section.                             *)
(***************************************************************************)
\* Lines 137-143: the guard on data['data'] and the three lookups.  The
\* result is the exception raised, "exit" for the sys.exit(1) of the guard,
\* or "none" with obj and value.
AnalyzeHead(data) ==
  LET has == Contains(data, K_data)
      list == Index(data, K_data)
      obj == IndexZero(list.v)
      decoded_value == Get(obj.v, K_decoded_value, EmptyObj)
      value == Get(decoded_value, K_value, EmptyObj)
      stop(e) == [exc |-> e, obj |-> JNull, value |-> JNull]
  IN IF has = "TypeError" THEN stop("TypeError")
     ELSE IF has = "no" THEN stop("exit")
     ELSE IF list.exc # "none" THEN stop(list.exc)
     ELSE IF ~Truthy(list.v) THEN stop("exit")
     ELSE IF obj.exc # "none" THEN stop(obj.exc)
     ELSE IF obj.v.t # "obj" THEN stop("AttributeError")
     ELSE IF decoded_value.t # "obj" THEN stop("AttributeError")
     ELSE [exc |-> "none", obj |-> obj.v, value |-> value]

\* Lines 145-151.
ObjectSection(obj) ==
  Block(<<Emit(<<Header("Oracle Request Object")>>),
          PrintField("ID: ", obj, K_id, ""),
          PrintField("Type: ", obj, K_object_type, ""),
          PrintField("Owner: ", obj, K_owner, ""),
          PrintTime("Created: ", obj, K_created_at),
          PrintTime("Updated: ", obj, K_updated_at)>>)

\* Lines 153-160.
RequestSection(value) ==
  Block(<<Emit(<<Header("Request Details")>>),
          IfIn(value, K_amount, PrintField("Amount: ", value, K_amount, " (Gas)")),
          IfIn(value, K_request_account, PrintField("Requester: ", value, K_request_account, "")),
          IfIn(value, K_oracle, PrintField("Oracle: ", value, K_oracle, ""))>>)

\* Lines 176-179, with headers_json the outcome of json.loads; the bare
\* except of line 180 prints the text as it is.
HeadersLine(raw, headers_json) ==
  IF headers_json.exc # "none" THEN Emit(<<Line(<<Str(raw)>>)>>)
  ELSE IF Truthy(headers_json.v) THEN Emit(<<Line(<<Pretty(headers_json.v)>>)>>)
  ELSE Emit(<<Line(<<Lit("No headers specified")>>)>>)

\* Lines 172-181: both the lookup and json.loads sit in the try; its bare
\* except prints params['headers'], which raises again if the lookup did.
PrintHeaders(params) ==
  LET raw == Index(params, K_headers)
  IN Then(Emit(<<Line(<<Lit("\nHeaders:")>>)>>),
          IF raw.exc # "none" THEN Raise(raw.exc)
          ELSE HeadersLine(raw.v, json_loads(raw.v)))

\* Lines 184-186.
PrintBody(params) ==
  LET raw == Index(params, K_body)
  IN Then(Emit(<<Line(<<Lit("\nRequest Body:")>>)>>),
          IF raw.exc # "none" THEN Raise(raw.exc)
          ELSE Emit(<<Line(process_request_body(raw.v).pieces)>>))

\* Lines 162-186.
HttpSection(value) ==
  LET params == extract_nested_value(value, P_params_value).v
  IN Then(Emit(<<Header("HTTP Request")>>),
          IF ~Truthy(params) THEN Skip
          ELSE Block(<<IfIn(params, K_url, PrintField("URL: ", params, K_url, "")),
                       IfIn(params, K_method, PrintField("Method: ", params, K_method, "")),
                       IfIn(params, K_headers, PrintHeaders(params)),
                       IfIn(params, K_body, PrintBody(params))>>))

\* decode_hex(x) in an f-string or an assignment: x.startswith raises
\* AttributeError for anything but a str.
DecodeHexOf(x) ==
  IF x.t = "str" THEN [exc |-> "none", text |-> decode_hex(x.s)]
  ELSE [exc |-> "AttributeError", text |-> <<>>]

\* Lines 188-197.  (KeyError, IndexError) are passed over; nothing in the
\* try raises them.
CallbackSection(value) ==
  LET notify_vec == extract_nested_value(value, P_notify_vec).v
      hex_string == extract_nested_value(notify_vec, P_value_0_0).v
      decoded == DecodeHexOf(hex_string)
      body == IF ~Truthy(hex_string) THEN Skip
              ELSE Then(Emit(<<Header("Callback Details")>>),
                        IF decoded.exc # "none" THEN Raise(decoded.exc)
                        ELSE Emit(<<Line(<<Lit("Callback: "), Txt(decoded.text)>>)>>))
  IN IF ~Truthy(notify_vec) THEN Skip
     ELSE IF body.exc \in {"KeyError", "IndexError"} THEN Emit(body.items)
     ELSE body

\* Lines 225-228.
PrintAiContent(ai_content) ==
  IF Truthy(ai_content)
  THEN Emit(<<Header("AI Response Content"), Line(<<Str(ai_content)>>)>>)
  ELSE Skip

\* Lines 221-233, with json_response the outcome of the second json.loads.
PrintJsonResponse(decoded, json_response) ==
  IF json_response.exc = "JSONDecodeError" THEN Emit(<<Line(<<Txt(decoded)>>)>>)
  ELSE IF json_response.exc # "none"
    THEN Emit(<<Line(<<Lit("Error processing response: "), ExcText(json_response.exc)>>),
                Line(<<Txt(decoded)>>)>>)
  ELSE Then(Emit(<<Line(<<Pretty(json_response.v)>>)>>),
            PrintAiContent(process_openai_response(json_response.v)))

\* Lines 220-233, with json_str_response the outcome of the first json.loads.
PrintJsonStrResponse(decoded, json_str_response) ==
  IF json_str_response.exc # "none" THEN Emit(<<Line(<<Txt(decoded)>>)>>)
  ELSE PrintJsonResponse(decoded, json_loads(json_str_response.v))

\* Lines 218-233: the inner try of the response section.
PrintResponseContent(decoded) == PrintJsonStrResponse(decoded, json_loads(JStr(decoded)))

\* Lines 210-216: whether response_vec holds a hex string at value[0][0]:
\* "none" with the string, "skip" when a test of the two ifs fails, or the
\* exception raised.
ResponseHex(response_vec) ==
  LET has == Contains(response_vec, K_value)
      list == Index(response_vec, K_value)
      no(e) == [exc |-> e, hex |-> JNull]
  IN IF has = "TypeError" THEN no("TypeError")
     ELSE IF has = "no" THEN no("skip")
     ELSE IF list.exc # "none" THEN no(list.exc)
     ELSE IF list.v.t # "list" \/ list.v.l = <<>> THEN no("skip")
     ELSE IF list.v.l[1].t # "list" \/ list.v.l[1].l = <<>> THEN no("skip")
     ELSE [exc |-> "none", hex |-> list.v.l[1].l[1]]

\* Lines 215-233, with decoded the outcome of decode_hex(hex_string).
PrintDecoded(decoded) ==
  IF decoded.exc # "none" THEN Raise(decoded.exc)
  ELSE Then(Emit(<<Line(<<Lit("\nResponse Content:")>>)>>),
            PrintResponseContent(decoded.text))

\* Lines 210-233: the body of the outer try, with found the outcome of the
\* tests of lines 210-212.
PrintFound(found) ==
  IF found.exc = "skip" THEN Skip
  ELSE IF found.exc # "none" THEN Raise(found.exc)
  ELSE IF ~Truthy(found.hex) THEN Skip
  ELSE PrintDecoded(DecodeHexOf(found.hex))

\* Lines 234-236: the handler of the outer try, with body the outcome of
\* the try's body.
ExtractHandler(response_vec, body) ==
  IF body.exc \in {"KeyError", "IndexError"}
  THEN Emit(body.items
            \o <<Line(<<Lit("Error extracting response: "), ExcText(body.exc)>>),
                 Line(<<Lit("Response structure: "), Str(response_vec)>>)>>)
  ELSE body

\* Lines 207-238: the outer try and the else of `if response_vec`.
ResponseContent(response_vec) ==
  IF ~Truthy(response_vec)
  THEN Emit(<<Line(<<Lit("\nNo response content available")>>)>>)
  ELSE ExtractHandler(response_vec, PrintFound(ResponseHex(response_vec)))

\* Lines 199-238.
ResponseSection(value) ==
  Block(<<Emit(<<Header("Response")>>),
          IfIn(value, K_response_status, PrintField("Status: ", value, K_response_status, "")),
          ResponseContent(extract_nested_value(value, P_response_vec).v)>>)

\* Line 240.
EndSection == Emit(<<Header("End of Oracle Request Details")>>)

VARIABLES hx, px, bx, pc, mode, proc, data, out, exitCode, caught

vars == <<hx, px, bx, pc, mode, proc, data, out, exitCode, caught>>

mainVars == <<pc, mode, proc, data, out, exitCode, caught>>

fnVars == <<hx, px, bx>>

Idle == [done |-> TRUE, kind |-> "idle"]

NoProc == [status |-> "idle", kind |-> "none", stdout |-> <<>>]

\* The program is not run in the specifications of the single functions.
MainIdle ==
  /\ pc = "off" /\ mode = "none" /\ proc = NoProc /\ data = JNull
  /\ out = <<>> /\ exitCode = -1 /\ caught = "none"

(***************************************************************************)
(* SpecHex: decode_hex applied to one input string.  The input is any      *)
(* string over HexAlphabet up to MaxHexLen, or the hex encoding (with or   *)
(* without the 0x prefix) of a text over TextAlphabet up to MaxTextLen.    *)
(***************************************************************************)
HexAlphabet == {Ord(c) : c \in {"0", "x", "6", "8", "c", "3", " ", "g"}} \cup {10}

\* "h", "~", e-acute, the euro sign, an emoji.
TextAlphabet == {104, 126, 233, 8364, 128512}

HexInputs ==
  {[kind |-> "raw", text |-> <<>>, input |-> s] : s \in SeqsUpTo(HexAlphabet, MaxHexLen)}
  \cup {[kind |-> "hex", text |-> t, input |-> HexOfText(t)] :
          t \in SeqsUpTo(TextAlphabet, MaxTextLen)}
  \cup {[kind |-> "0xhex", text |-> t, input |-> Prefix0x \o HexOfText(t)] :
          t \in SeqsUpTo(TextAlphabet, MaxTextLen)}

InitHex ==
  /\ \E in \in HexInputs :
       hx = [kind |-> in.kind, text |-> in.text, input |-> in.input,
             done |-> FALSE, out |-> <<>>]
  /\ px = Idle
  /\ bx = Idle
  /\ MainIdle

HexDecode ==
  /\ ~hx.done
  /\ hx' = [hx EXCEPT !.done = TRUE, !.out = decode_hex(hx.input)]
  /\ UNCHANGED <<px, bx, mainVars>>

NextHex == HexDecode

SpecHex == InitHex /\ [][NextHex]_vars

(***************************************************************************)
(* SpecPath: extract_nested_value applied to one structure and one path.   *)
(* A structure is a chain of dicts, one key each, down to a leaf; a path   *)
(* is up to MaxPathLen keys joined by dots.                                *)
(***************************************************************************)
PathKeys == {T(<<"a">>), T(<<"b">>), T(<<"0">>), <<>>}

Leaves ==
  {JNull, JNum(T(<<"7">>)), JBool(TRUE), JStr(T(<<"a">>)), JList(<<>>),
   JList(<<JStr(T(<<"a">>)), JStr(T(<<"b">>))>>), EmptyObj}

RECURSIVE Chain(_, _)
Chain(keys, leaf) ==
  IF keys = <<>> THEN leaf
  ELSE JObj([k \in {Head(keys)} |-> Chain(Tail(keys), leaf)])

Structures ==
  {Chain(ks, leaf) : ks \in SeqsUpTo(PathKeys \ {<<>>}, MaxDepth), leaf \in Leaves}

RECURSIVE Join(_, _)
Join(keys, sep) ==
  IF Len(keys) = 1 THEN keys[1]
  ELSE keys[1] \o <<sep>> \o Join(Tail(keys), sep)

KeyLists == SeqsUpTo(PathKeys, MaxPathLen) \ {<<>>}

InitPath ==
  /\ \E d \in Structures, ks \in KeyLists :
       px = [kind |-> "path", data |-> d, keys |-> ks, path |-> Join(ks, Ord(".")),
             done |-> FALSE, raised |-> FALSE, v |-> JNull]
  /\ hx = Idle
  /\ bx = Idle
  /\ MainIdle

PathExtract ==
  /\ ~px.done
  /\ LET r == extract_nested_value(px.data, px.path)
     IN px' = [px EXCEPT !.done = TRUE, !.raised = r.raised, !.v = r.v]
  /\ UNCHANGED <<hx, bx, mainVars>>

NextPath == PathExtract

SpecPath == InitPath /\ [][NextPath]_vars

(***************************************************************************)
(* SpecBody: process_request_body applied to one body string: the JSON     *)
(* text of a chat request with up to MaxMsgs messages, the JSON text of    *)
(* another value, a short text over RawAlphabet, or a long run of one      *)
(* letter around the preview length.                                      *)
(***************************************************************************)
S_hi == T(<<"h", "i">>)
S_uSer == T(<<"u", "S", "e", "r">>)
S_m == T(<<"g", "p", "t">>)
N_temp == T(<<"0", ".", "7">>)

\* A dict from a set of <<key, value>> pairs.
Dict(pairs) ==
  JObj([k \in {kv[1] : kv \in pairs} |-> (CHOOSE kv \in pairs : kv[1] = k)[2]])

Roles == {Missing, JStr(S_system), JStr(S_uSer), JNull}

Contents == {Missing, JStr(S_hi)}

Optional(k, v) == IF v = Missing THEN {} ELSE {<<k, v>>}

ChatMessages ==
  {Dict(Optional(K_role, r) \cup Optional(K_content, c)) : r \in Roles, c \in Contents}
  \cup {JStr(S_hi)}

ChatBodies ==
  {Dict({<<K_messages, JList(ms)>>} \cup Optional(K_model, m) \cup Optional(K_temperature, t)) :
     ms \in SeqsUpTo(ChatMessages, MaxMsgs),
     m \in {Missing, JStr(S_m)},
     t \in {Missing, JNum(N_temp)}}

OtherJson ==
  {JNull, JBool(TRUE), JBool(FALSE), JNum(T(<<"5">>)), JNum(T(<<"0">>)),
   JStr(S_hi), JStr(K_messages), JStr(<<>>),
   JList(<<>>), JList(<<JNum(T(<<"1">>))>>), JList(<<JStr(K_messages)>>),
   EmptyObj, Dict({<<K_role, JStr(S_hi)>>}),
   Dict({<<K_messages, EmptyObj>>}), Dict({<<K_messages, JStr(S_hi)>>}),
   Dict({<<K_messages, JNull>>})}

RawAlphabet == {Ord(c) : c \in {"a", "{", "\"", "5", " "}}

LongBodies == {[i \in 1..n |-> Ord("a")] : n \in (PreviewLength - 1)..(PreviewLength + MaxOver)}

Bodies ==
  {JsonDumps(j) : j \in ChatBodies \cup OtherJson}
  \cup SeqsUpTo(RawAlphabet, MaxRawLen)
  \cup LongBodies

InitBody ==
  /\ \E b \in Bodies :
       bx = [kind |-> "body", body |-> b, done |-> FALSE, raised |-> FALSE, res |-> <<>>]
  /\ hx = Idle
  /\ px = Idle
  /\ MainIdle

BodyProcess ==
  /\ ~bx.done
  /\ LET r == process_request_body(JStr(bx.body))
     IN bx' = [bx EXCEPT !.done = TRUE, !.raised = r.raised, !.res = r.pieces]
  /\ UNCHANGED <<hx, px, mainVars>>

NextBody == BodyProcess

SpecBody == InitBody /\ [][NextBody]_vars

(***************************************************************************)
(* Spec: one run of the program.  What the rooch client answers is the     *)
(* environment's choice: it cannot be started (OSError), it exits          *)
(* non-zero, or it prints a text, which is the JSON text of one of Tops or *)
(* no JSON at all.                                                         *)
(***************************************************************************)
S_ts == T(<<"1", "7", "0", "0", "0", "0", "0", "0", "0", "0", "0", "0", "0">>)
S_soon == T(<<"s", "o", "o", "n">>)
S_0xabc == T(<<"0", "x", "a", "b", "c">>)
S_type == T(<<"0", "x", "3", ":", ":", "o", "r", "a", "c", "l", "e", "s", ":", ":", "R", "e", "q", "u", "e", "s", "t">>)
S_owner == T(<<"r", "o", "o", "c", "h", "1">>)
S_url == T(<<"h", "t", "t", "p", "s", ":", "/", "/", "x", "/", "v", "1">>)
S_POST == T(<<"P", "O", "S", "T">>)
S_hello == T(<<"h", "e", "l", "l", "o">>)
S_plain == T(<<"n", "o", "t", " ", "j", "s", "o", "n">>)
S_cb == T(<<"0", "x", "2", ":", ":", "m", ":", ":", "c", "b">>)
N_5 == JNum(T(<<"5">>))

HexStr(text) == JStr(Prefix0x \o HexOfText(text))

Identity ==
  {<<K_id, JStr(S_0xabc)>>, <<K_object_type, JStr(S_type)>>, <<K_owner, JStr(S_owner)>>,
   <<K_created_at, JStr(S_ts)>>, <<K_updated_at, JStr(S_ts)>>}

\* The identity fields: all there, `id` absent, `created_at` no number.
Identities ==
  {Identity,
   Identity \ {<<K_id, JStr(S_0xabc)>>},
   (Identity \ {<<K_created_at, JStr(S_ts)>>}) \cup {<<K_created_at, JStr(S_soon)>>}}

Scalars ==
  {{},
   {<<K_amount, JStr(T(<<"1", "0">>))>>, <<K_request_account, JStr(S_owner)>>,
    <<K_oracle, JStr(S_owner)>>, <<K_response_status, JNum(T(<<"2", "0", "0">>))>>}}

ChatRequest ==
  Dict({<<K_model, JStr(S_m)>>,
        <<K_messages, JList(<<Dict({<<K_role, JStr(S_system)>>, <<K_content, JStr(S_hi)>>})>>)>>})

\* value.params: absent, an empty params.value, three well-typed requests,
\* and a params.value that is a str.
ParamsChoices ==
  {Missing,
   Dict({<<K_value, EmptyObj>>}),
   Dict({<<K_value, Dict({<<K_url, JStr(S_url)>>, <<K_method, JStr(S_POST)>>,
                          <<K_headers, JStr(JsonDumps(Dict({<<K_id, JStr(S_hi)>>})))>>,
                          <<K_body, JStr(JsonDumps(ChatRequest))>>})>>}),
   Dict({<<K_value, Dict({<<K_headers, JStr(JsonDumps(EmptyObj))>>,
                          <<K_body, JStr(JsonDumps(N_5))>>})>>}),
   Dict({<<K_value, Dict({<<K_headers, JStr(S_plain)>>, <<K_body, JStr(S_plain)>>})>>}),
   Dict({<<K_value, JStr(K_url)>>})}

Vec(v) == Dict({<<K_value, Dict({<<K_vec, v>>})>>})

K_0 == T(<<"0">>)

\* value.notify: absent, an empty vec, a vec whose value is the list
\* [[hex]], a vec whose value is the dict {"0": {"0": hex}}, and that dict
\* with a number in place of the hex string.
NotifyChoices ==
  {Missing,
   Vec(EmptyObj),
   Vec(Dict({<<K_value, JList(<<JList(<<HexStr(S_cb)>>)>>)>>})),
   Vec(Dict({<<K_value, Dict({<<K_0, Dict({<<K_0, HexStr(S_cb)>>})>>})>>})),
   Vec(Dict({<<K_value, Dict({<<K_0, Dict({<<K_0, N_5>>})>>})>>}))}

Completion(content) ==
  Dict({<<K_choices, JList(<<Dict({<<K_message, Dict({<<K_content, content>>})>>})>>)>>})

\* The payload the oracle stores: the JSON text of the response body,
\* encoded once more as a JSON string.
Twice(j) == JsonDumps(JStr(JsonDumps(j)))

ResponseAt(x) == Vec(Dict({<<K_value, JList(<<JList(<<x>>)>>)>>}))

\* value.response: absent, an empty vec, vecs without the value[0][0]
\* shape, and vecs with it holding an empty string, doubly encoded objects,
\* a singly encoded object, texts that are no JSON, bad hex, a number; and
\* a vec that is a str.
ResponseChoices ==
  {Missing,
   Vec(EmptyObj),
   Vec(Dict({<<K_value, JList(<<>>)>>})),
   Vec(Dict({<<K_value, JList(<<JList(<<>>)>>)>>})),
   Vec(Dict({<<K_id, JStr(S_hi)>>})),
   ResponseAt(JStr(<<>>)),
   ResponseAt(HexStr(Twice(Completion(JStr(S_hello))))),
   ResponseAt(HexStr(Twice(Completion(JStr(<<>>))))),
   ResponseAt(HexStr(Twice(Dict({<<K_id, JStr(S_hi)>>})))),
   ResponseAt(HexStr(JsonDumps(Completion(JStr(S_hello))))),
   ResponseAt(HexStr(JsonDumps(JStr(S_plain)))),
   ResponseAt(HexStr(S_plain)),
   ResponseAt(JStr(S_plain)),
   ResponseAt(N_5),
   Vec(JStr(K_value))}

Obj(id, sc, pa, no, re) ==
  Dict(id \cup {<<K_decoded_value,
                  Dict({<<K_value, Dict(sc \cup Optional(K_params, pa) \cup Optional(K_notify, no)
                                           \cup Optional(K_response, re))>>})>>})

\* The objects: every identity with every response, every request with
\* every callback under the full identity, and an object with no
\* decoded_value, a null one, and one without `value`.
Objects ==
  {Obj(id, {}, Missing, Missing, re) : id \in Identities, re \in ResponseChoices}
  \cup {Obj(Identity, sc, pa, no, ResponseAt(HexStr(Twice(Completion(JStr(S_hello)))))) :
          sc \in Scalars, pa \in ParamsChoices, no \in NotifyChoices}
  \cup {Dict(Identity), Dict(Identity \cup {<<K_decoded_value, JNull>>}),
        Dict(Identity \cup {<<K_decoded_value, EmptyObj>>})}

\* What the client can print as JSON: an answer with one object, answers
\* with no object, and values that are no answer at all.
Tops ==
  {Dict({<<K_data, JList(<<o>>)>>}) : o \in Objects}
  \cup {Dict({<<K_data, JList(<<>>)>>}), Dict({<<K_data, JNull>>}), EmptyObj,
        Dict({<<K_data, JList(<<JStr(S_hi)>>)>>}), Dict({<<K_data, Dict({<<K_id, N_5>>})>>}),
        Dict({<<K_data, N_5>>}),
        JList(<<>>), JList(<<JStr(K_data)>>), JStr(K_data), JStr(S_hi), N_5, JNull}

ProcOutcomes ==
  {[kind |-> "oserror", stdout |-> <<>>], [kind |-> "nonzero", stdout |-> <<>>],
   [kind |-> "stdout", stdout |-> S_plain], [kind |-> "stdout", stdout |-> <<>>]}
  \cup {[kind |-> "stdout", stdout |-> JsonDumps(top)] : top \in Tops}

\* main, line 250: `if args.object_id` takes the by-ID branch for a
\* non-empty argument, the latest branch for none (or an empty one).
Init ==
  /\ pc = "start"
  /\ mode \in {"by_id", "latest"}
  /\ proc = NoProc
  /\ data = JNull
  /\ out = <<>>
  /\ exitCode = -1
  /\ caught = "none"
  /\ hx = Idle /\ px = Idle /\ bx = Idle

\* main, lines 258-260, with the handler returning instead of exiting.
MainHandlerReturns(e) == [items |-> <<Line(<<Lit("Error: "), ExcText(e)>>)>>, code |-> 0]

\* main, lines 258-260: print(f"Error: {e}"); sys.exit(1).
MainHandler(e) == [items |-> <<Line(<<Lit("Error: "), ExcText(e)>>)>>, code |-> 1]

\* The program ends: sys.exit(code), or main returns (code 0).
Exit(items, code, e) ==
  /\ out' = out \o items
  /\ exitCode' = code
  /\ caught' = e
  /\ pc' = "exited"

\* An exception reaches main's handler.
Fail(items, e) == Exit(items \o MainHandler(e).items, MainHandler(e).code, e)

\* Lines 26-28 and 45-47: the first print, and subprocess.run starts rooch.
Launch ==
  /\ pc = "start"
  /\ out' = out \o <<Line(<<Lit(IF mode = "by_id"
                               THEN "Fetching object data for ID: ..."
                               ELSE "Fetching the latest Oracle request object...")>>)>>
  /\ proc' = [status |-> "running", kind |-> "none", stdout |-> <<>>]
  /\ pc' = "waiting"
  /\ UNCHANGED <<mode, data, exitCode, caught, fnVars>>

\* Lines 34-41 and 57-71, with parsed the outcome of json.loads(result.stdout).
Fetched(parsed) ==
  IF parsed.exc # "none"
    THEN /\ Exit(<<Line(<<Lit("Error parsing response from rooch command: "),
                          ExcText(parsed.exc)>>)>>, 1, "none")
         /\ UNCHANGED data
  ELSE IF mode = "latest" /\ parsed.v.t # "obj"
    THEN Fail(<<>>, "AttributeError") /\ UNCHANGED data
  ELSE IF mode = "latest" /\ ~Truthy(Get(parsed.v, K_data, JNull))
    THEN /\ Exit(<<Line(<<Lit("No Oracle request objects found.")>>)>>, 1, "none")
         /\ UNCHANGED data
  ELSE /\ data' = parsed.v
       /\ pc' = "analyze"
       /\ UNCHANGED <<out, exitCode, caught>>

\* Lines 28-41 and 47-71: subprocess.run returns or raises, and the rest of
\* fetch_object_by_id / fetch_latest_request runs.
Complete ==
  /\ pc = "waiting"
  /\ \E o \in ProcOutcomes :
       /\ proc' = [status |-> "completed", kind |-> o.kind, stdout |-> o.stdout]
       /\ IF o.kind = "oserror" THEN Fail(<<>>, "OSError") /\ UNCHANGED data
          ELSE IF o.kind = "nonzero"
            THEN /\ Exit(<<Line(<<Lit("Error executing rooch command: "),
                                  ExcText("CalledProcessError")>>),
                           Line(<<Lit("stderr: ")>>)>>, 1, "none")
                 /\ UNCHANGED data
          ELSE Fetched(json_loads(JStr(o.stdout)))
  /\ UNCHANGED <<mode, fnVars>>

\* Lines 137-143.
Analyze ==
  /\ pc = "analyze"
  /\ LET h == AnalyzeHead(data)
     IN IF h.exc = "exit"
          THEN Exit(<<Line(<<Lit("Error: No object data found")>>)>>, 1, "none")
        ELSE IF h.exc # "none" THEN Fail(<<>>, h.exc)
        ELSE pc' = "object" /\ UNCHANGED <<out, exitCode, caught>>
  /\ UNCHANGED <<mode, proc, data, fnVars>>

\* The order of the sections with Callback and Response exchanged.
AfterSectionSwapped(section) ==
  CASE section = "object" -> "request"
    [] section = "request" -> "http"
    [] section = "http" -> "response"
    [] section = "response" -> "callback"
    [] section = "callback" -> "end"

\* The order of the sections in analyze_oracle_request.
AfterSection(section) ==
  CASE section = "object" -> "request"
    [] section = "request" -> "http"
    [] section = "http" -> "callback"
    [] section = "callback" -> "response"
    [] section = "response" -> "end"

\* One section runs: what it printed is out, and an exception it raised
\* ends the program in main's handler.
RunSection(section, r) ==
  /\ pc = section
  /\ IF r.exc # "none" THEN Fail(r.items, r.exc)
     ELSE /\ out' = out \o r.items
          /\ pc' = AfterSection(section)
          /\ UNCHANGED <<exitCode, caught>>
  /\ UNCHANGED <<mode, proc, data, fnVars>>

PrintObject == RunSection("object", ObjectSection(AnalyzeHead(data).obj))

PrintRequest == RunSection("request", RequestSection(AnalyzeHead(data).value))

PrintHttp == RunSection("http", HttpSection(AnalyzeHead(data).value))

PrintCallback == RunSection("callback", CallbackSection(AnalyzeHead(data).value))

PrintResponse == RunSection("response", ResponseSection(AnalyzeHead(data).value))

\* Line 240, and main returns: the exit code is 0.
PrintEnd ==
  /\ pc = "end"
  /\ Exit(EndSection.items, 0, "none")
  /\ UNCHANGED <<mode, proc, data, fnVars>>

Next ==
  \/ Launch
  \/ Complete
  \/ Analyze
  \/ PrintObject
  \/ PrintRequest
  \/ PrintHttp
  \/ PrintCallback
  \/ PrintResponse
  \/ PrintEnd

Spec == Init /\ [][Next]_vars

(***************************************************************************)
(* Properties of a run of the program (Spec).                              *)
(***************************************************************************)
Exited == pc = "exited"

IsHeader(item) == item.k = "header"

HeadersOf(items) == SelectSeq(items, IsHeader)

HasItem(item) == \E i \in 1..Len(out) : out[i] = item

\* The item printed right after the first occurrence of item, Missing if
\* there is none.
ItemAfter(item) ==
  IF \E i \in 1..(Len(out) - 1) : out[i] = item
  THEN out[1 + CHOOSE i \in 1..(Len(out) - 1) :
                 out[i] = item /\ \A j \in 1..(i - 1) : out[j] # item]
  ELSE Missing

H_Object == Header("Oracle Request Object")
H_Request == Header("Request Details")
H_Http == Header("HTTP Request")
H_Callback == Header("Callback Details")
H_Response == Header("Response")
H_AI == Header("AI Response Content")
H_End == Header("End of Oracle Request Details")

HeaderOrder == <<H_Object, H_Request, H_Http, H_Callback, H_Response, H_AI, H_End>>

HeaderRank(h) == CHOOSE i \in 1..Len(HeaderOrder) : HeaderOrder[i] = h

\* x[k] of a dict, x[0] of a list; Missing where the code would find nothing.
Sub(x, k) == IF x.t = "obj" /\ k \in DOMAIN x.o THEN x.o[k] ELSE Missing
First(x) == IF x.t = "list" /\ x.l # <<>> THEN x.l[1] ELSE Missing

\* What the client printed, as JSON (Missing when it printed none).
Printed ==
  IF proc.kind = "stdout" /\ json_loads(JStr(proc.stdout)).exc = "none"
  THEN json_loads(JStr(proc.stdout)).v ELSE Missing

FetchedObject == First(Sub(Printed, K_data))
FetchedValue == Sub(Sub(FetchedObject, K_decoded_value), K_value)
NotifyVec == Sub(Sub(Sub(FetchedValue, K_notify), K_value), K_vec)
ResponseVec == Sub(Sub(Sub(FetchedValue, K_response), K_value), K_vec)

ProcessFailed == proc.kind = "nonzero"
OutputNotJson == proc.kind = "stdout" /\ Printed = Missing
DataMissingOrEmpty ==
  /\ proc.kind = "stdout" /\ Printed # Missing
  /\ Sub(Printed, K_data) \in {Missing, JNull, JList(<<>>)}

ErrorLines ==
  {"Error: ", "Error: No object data found", "No Oracle request objects found.",
   "Error executing rooch command: ", "Error parsing response from rooch command: "}

IsErrorLine(item) ==
  item.k = "line" /\ item.pieces[1].p = "lit" /\ item.pieces[1].lit \in ErrorLines

\* The places of a run, in the order it passes them.
Places ==
  <<"start", "waiting", "analyze", "object", "request", "http", "callback", "response",
    "end", "exited">>

Place(p) == CHOOSE i \in 1..Len(Places) : Places[i] = p

\* A run that has not ended is at a place where it goes on; one that has
\* ended has the exit code and the output of the contract.
ExitContract ==
  /\ ~Exited => (exitCode = -1 /\ \E i \in 1..(Len(Places) - 1) : Places[i] = pc)
  /\ Exited =>
       /\ exitCode \in {0, 1}
       /\ (ProcessFailed \/ OutputNotJson \/ DataMissingOrEmpty \/ caught # "none") =>
            (exitCode = 1 /\ \E i \in 1..Len(out) : IsErrorLine(out[i]))
       /\ (ProcessFailed \/ OutputNotJson \/ DataMissingOrEmpty) => HeadersOf(out) = <<>>

\* C1: every run ends, with exit code 0 or 1: each step takes the run to a
\* later place, the last of which is the exit, and at no earlier place does
\* it stop; the code is 1, and an error message is printed, when rooch exits
\* non-zero, prints no valid JSON, prints JSON whose `data` is missing or
\* empty, or any other exception is raised; and in the first three cases
\* and the empty-data case no section header is printed.
C1_ExitCodes == []ExitContract /\ [][Place(pc') > Place(pc)]_vars

\* A by-ID run that got JSON with an empty `data` list and exited with 1.
C1_Witness ==
  /\ Exited /\ mode = "by_id" /\ exitCode = 1
  /\ Sub(Printed, K_data) = JList(<<>>)
  /\ out[Len(out)] = Line(<<Lit("Error: No object data found")>>)

\* C2 as stated: once the fetch returned JSON with a non-empty `data` list,
\* the report runs to the End line and the exit code is 0, whichever fields
\* are absent and whichever decoding step fails.
C2_AsStated ==
  (Exited /\ Sub(Printed, K_data).t = "list" /\ FetchedObject.t = "obj") =>
    (exitCode = 0 /\ out[Len(out)] = H_End)

\* C3: the headers printed are in the fixed order, each at most once,
\* nothing is printed after the End line, and rooch has completed before
\* the first header is printed.
C3_SectionOrder ==
  LET hs == HeadersOf(out)
  IN /\ \A i \in 1..Len(hs) : \E r \in 1..Len(HeaderOrder) : HeaderOrder[r] = hs[i]
     /\ \A i \in 1..(Len(hs) - 1) : HeaderRank(hs[i]) < HeaderRank(hs[i + 1])
     /\ \A i \in 1..Len(out) : out[i] = H_End => i = Len(out)
     /\ hs # <<>> => proc.status = "completed"

\* A report with all seven headers.
C3_Witness == Exited /\ HeadersOf(out) = HeaderOrder

\* C4 as stated: in a report that runs to its end, a notify vector whose
\* `value` is a non-empty list whose first element is a non-empty list
\* starting with a hex string gives the Callback Details section with the
\* decoded text, between the HTTP Request and Response sections; without a
\* notify vector there is no such section.
C4_AsStated ==
  (Exited /\ exitCode = 0) =>
    LET hex == First(First(Sub(NotifyVec, K_value)))
    IN /\ (hex.t = "str" /\ hex.s # <<>>) =>
            /\ ItemAfter(H_Callback) = Line(<<Lit("Callback: "), Txt(decode_hex(hex.s))>>)
            /\ HasItem(H_Callback)
       /\ NotifyVec = Missing => ~HasItem(H_Callback)

\* C5 as stated: a response vector holding at value[0][0] a hex string that
\* decodes to a JSON string whose content is a JSON object gives the
\* 'Response Content:' line followed by the pretty-printed object, and the
\* AI Response Content section with message.content of the first choice
\* exactly when the object has that shape.
C5_AsStated ==
  Exited =>
    LET hex == First(First(Sub(ResponseVec, K_value)))
        outer == IF hex.t = "str" THEN json_loads(JStr(decode_hex(hex.s))) ELSE json_loads(JNull)
        inner == json_loads(outer.v)
        content == Sub(Sub(First(Sub(inner.v, K_choices)), K_message), K_content)
    IN (outer.exc = "none" /\ inner.exc = "none" /\ inner.v.t = "obj") =>
         /\ ItemAfter(Line(<<Lit("\nResponse Content:")>>)) = Line(<<Pretty(inner.v)>>)
         /\ IF content # Missing
            THEN ItemAfter(H_AI) = Line(<<Str(content)>>)
            ELSE ~HasItem(H_AI)

NoContentLine == Line(<<Lit("\nNo response content available")>>)
ContentLine == Line(<<Lit("\nResponse Content:")>>)

\* C10 as stated: in a report that runs to the End line, when no 'Response
\* Content:' line is printed the line 'No response content available' is,
\* and the two are never both printed.
C10_AsStated ==
  (Exited /\ exitCode = 0) =>
    /\ ~HasItem(ContentLine) => HasItem(NoContentLine)
    /\ ~(HasItem(ContentLine) /\ HasItem(NoContentLine))

(***************************************************************************)
(* Properties of decode_hex (SpecHex).                                     *)
(***************************************************************************)
HexBody(s) == IF StartsWith(s, Prefix0x) THEN SubSeq(s, 3, Len(s)) ELSE s

\* Hex in the narrow sense: an even number of characters, all hex digits.
StrictHex(s) == Len(s) % 2 = 0 /\ \A i \in 1..Len(s) : IsHexDigit(s[i])

\* What bytes.fromhex accepts: hex digits and ASCII whitespace only, every
\* maximal run of adjacent hex digits of even length.
LenientHex(s) ==
  /\ \A i \in 1..Len(s) : IsHexDigit(s[i]) \/ IsSpace(s[i])
  /\ \A i \in 1..Len(s) :
       (IsHexDigit(s[i]) /\ (i = Len(s) \/ ~IsHexDigit(s[i + 1])))
         => \E j \in 1..i :
              /\ \A k \in j..i : IsHexDigit(s[k])
              /\ j = 1 \/ ~IsHexDigit(s[j - 1])
              /\ (i - j + 1) % 2 = 0

IsHexDigitChar(c) == IsHexDigit(c)

\* The bytes the hex digits of s spell, whitespace left out.
DigitBytes(s) == FromHex(SelectSeq(s, IsHexDigitChar)).bytes

HexRoundTrip == hx.kind \in {"hex", "0xhex"} => hx.out = hx.text

\* C8 as stated: decode_hex inverts hex encoding (with or without 0x), and
\* every input that is not hex in the narrow sense (odd length, a character
\* that is no hex digit) or whose bytes are not UTF-8 yields the placeholder.
C8_AsStated ==
  (hx.done /\ hx.kind # "idle") =>
    /\ HexRoundTrip
    /\ (~StrictHex(HexBody(hx.input)) \/ ~Utf8Decode(DigitBytes(HexBody(hx.input))).ok)
         => hx.out = UnableToDecodeHex

\* C8 amended: decode_hex inverts hex encoding (with or without 0x), and
\* every input that bytes.fromhex rejects (a character that is neither a hex
\* digit nor ASCII whitespace, or a run of hex digits of odd length) or whose
\* bytes are not UTF-8 yields the placeholder; whitespace between bytes is
\* skipped and such an input decodes to the text of its bytes.
C8_DecodeHex ==
  (hx.done /\ hx.kind # "idle") =>
    /\ HexRoundTrip
    /\ IF LenientHex(HexBody(hx.input)) /\ Utf8Decode(DigitBytes(HexBody(hx.input))).ok
       THEN hx.out = Utf8Decode(DigitBytes(HexBody(hx.input))).text
       ELSE hx.out = UnableToDecodeHex

\* A pair of digits split by a space: rejected, the placeholder comes back.
C8_Witness ==
  /\ hx.done /\ hx.kind = "raw"
  /\ hx.input = T(<<"6", " ", "8">>)
  /\ hx.out = UnableToDecodeHex

(***************************************************************************)
(* Properties of process_request_body (SpecBody).                          *)
(***************************************************************************)
BodyParsed == json_loads(JStr(bx.body))

\* The body is the JSON text of an object with a `messages` list.
IsChatBody ==
  /\ BodyParsed.exc = "none"
  /\ BodyParsed.v.t = "obj"
  /\ K_messages \in DOMAIN BodyParsed.v.o
  /\ BodyParsed.v.o[K_messages].t = "list"

BodyMessages == BodyParsed.v.o[K_messages].l

\* Every message is an object whose role, if it has one, is a string.
MessagesWellFormed ==
  \A i \in 1..Len(BodyMessages) :
    /\ BodyMessages[i].t = "obj"
    /\ K_role \in DOMAIN BodyMessages[i].o => BodyMessages[i].o[K_role].t = "str"

S_Unknown == T(<<"U", "n", "k", "n", "o", "w", "n">>)
S_SYSTEM == T(<<"S", "Y", "S", "T", "E", "M">>)

RoleLabel(msg) ==
  IF K_role \notin DOMAIN msg.o THEN S_Unknown
  ELSE IF msg.o[K_role].s = S_system THEN S_SYSTEM
  ELSE Capitalize(msg.o[K_role].s)

\* The chat layout: the model line, the temperature line exactly when the key
\* is there, then one block per message, in the order of the list.
ChatLayout ==
  LET j == BodyParsed.v
      temp == K_temperature \in DOMAIN j.o
      h == IF temp THEN 7 ELSE 4
      at(i) == h + 5 * (i - 1)
  IN /\ ~bx.raised
     /\ Len(bx.res) = h + 5 * Len(BodyMessages)
     /\ bx.res[1] = Lit("Model: ")
     /\ bx.res[2] = IF K_model \in DOMAIN j.o THEN Str(j.o[K_model]) ELSE Txt(S_NotSpecified)
     /\ (bx.res[4] = Lit("Temperature: ")) = temp
     /\ temp => bx.res[5] = Str(j.o[K_temperature])
     /\ \A i \in 1..Len(BodyMessages) :
          /\ bx.res[at(i) + 1] = Lit("[")
          /\ bx.res[at(i) + 2] = Txt(RoleLabel(BodyMessages[i]))
          /\ bx.res[at(i) + 3] = Lit("]\n")
          /\ bx.res[at(i) + 4] =
               IF K_content \in DOMAIN BodyMessages[i].o
               THEN Str(BodyMessages[i].o[K_content]) ELSE Txt(<<>>)

\* C6 as stated: every body that parses as JSON and contains a `messages`
\* list yields the chat layout, no message dropped, duplicated or reordered.
C6_AsStated == (bx.done /\ bx.kind = "body" /\ IsChatBody) => ChatLayout

\* C6 amended: the chat layout is produced when every message of the list is
\* an object whose role, if present, is a string; a list with any other
\* message yields the text "Error processing request body: ..." instead.
C6_ChatBody ==
  (bx.done /\ bx.kind = "body" /\ IsChatBody) =>
    IF MessagesWellFormed THEN ChatLayout
    ELSE /\ ~bx.raised
         /\ bx.res = <<Lit("Error processing request body: "), ExcText("AttributeError")>>

\* Two messages, a system one then a mixed-case one, with a temperature.
C6_Witness ==
  /\ bx.done /\ bx.kind = "body" /\ IsChatBody /\ MessagesWellFormed
  /\ Len(BodyMessages) = 2
  /\ K_temperature \in DOMAIN BodyParsed.v.o
  /\ bx.res[9] = Txt(S_SYSTEM)
  /\ bx.res[14] = Txt(T(<<"U", "s", "e", "r">>))

\* C7: a body without a chat-style `messages` list has two outcomes only:
\* the pretty-print of the parsed value when it parses as JSON (an object,
\* array, string, number, boolean or null), the truncated preview when it
\* does not; never an error text, never a raised exception.
C7_AsStated ==
  (bx.done /\ bx.kind = "body" /\ ~IsChatBody) =>
    /\ ~bx.raised
    /\ bx.res = IF BodyParsed.exc = "none"
                THEN <<Pretty(BodyParsed.v)>>
                ELSE <<Txt(SubSeq(bx.body, 1, Min(PreviewLength, Len(bx.body)))),
                       Lit("...\n(Request body truncated for readability)")>>

(***************************************************************************)
(* Properties of extract_nested_value (SpecPath).                          *)
(***************************************************************************)
\* The value m keys down, Missing once a key is absent or the value reached
\* is not a dict.
RECURSIVE ReachAt(_, _, _)
ReachAt(d, keys, m) ==
  IF m = 0 THEN d
  ELSE LET c == ReachAt(d, keys, m - 1)
       IN IF c.t = "obj" /\ keys[m] \in DOMAIN c.o THEN c.o[keys[m]] ELSE Missing

\* C9: extract_nested_value never raises; it returns the value reached when
\* every key is present in a dict at its level, and None from the first key
\* that is missing or applied to something that is not a dict.
C9_ExtractNested ==
  (px.done /\ px.kind # "idle") =>
    /\ ~px.raised
    /\ LET r == ReachAt(px.data, px.keys, Len(px.keys))
       IN px.v = IF r = Missing THEN JNull ELSE r

\* A three-key path that meets a list after its first key.
C9_Witness ==
  /\ px.done /\ px.kind # "idle"
  /\ Len(px.keys) = 3
  /\ ReachAt(px.data, px.keys, 1).t = "list"
  /\ px.v = JNull /\ ~px.raised

====
